---- MODULE Spec2Model ----
(***************************************************************************)
(* Orlando DOCX plugin: the DOCX -> DITA conversion pipeline               *)
(* (convert_docx_to_dita_internal), the style classifier                   *)
(* (build_style_heading_map) and the structure builder, role resolver and  *)
(* topic generator it drives.  Style names and file paths are sequences of *)
(* one-character strings, so that the regular expressions and the          *)
(* substring tests of the classifier are computed character by character.  *)
(***************************************************************************)
EXTENDS Integers, Sequences, FiniteSets, TLC

\* ------------------------------------------------------------------------
\* Bounds of the model
\* ------------------------------------------------------------------------
MaxStyles == 2
MaxBlocks == 4
MaxLevel == 3

\* ------------------------------------------------------------------------
\* Characters and strings (str methods and the `re` character classes)
\* ------------------------------------------------------------------------
UpperChars == <<"A","B","C","D","E","F","G","H","I","J","K","L","M","N","O","P","Q","R","S","T","U","V","W","X","Y","Z">>
LowerChars == <<"a","b","c","d","e","f","g","h","i","j","k","l","m","n","o","p","q","r","s","t","u","v","w","x","y","z">>
DigitChars == <<"0","1","2","3","4","5","6","7","8","9">>

Range(s) == { s[i] : i \in DOMAIN s }

UpperSet == Range(UpperChars)
LowerSet == Range(LowerChars)
DigitSet == Range(DigitChars)

IsUpper(c) == c \in UpperSet
IsDigit(c) == c \in DigitSet
IsSpace(c) == c \in {" ", "\t", "\n"}
IsWordChar(c) == IsDigit(c) \/ IsUpper(c) \/ c \in LowerSet \/ c = "_"

DigitValues == [c \in DigitSet |-> (CHOOSE i \in DOMAIN DigitChars : DigitChars[i] = c) - 1]
DigitValue(c) == DigitValues[c]

ToLower == [c \in UpperSet |-> LowerChars[CHOOSE i \in DOMAIN UpperChars : UpperChars[i] = c]]
LowerChar(c) == IF IsUpper(c) THEN ToLower[c] ELSE c

\* str.lower()
Lower(s) == [i \in DOMAIN s |-> LowerChar(s[i])]

\* str.strip(): leading and trailing whitespace removed
Strip(s) ==
    LET keep == { i \in DOMAIN s : ~IsSpace(s[i]) }
    IN  IF keep = {} THEN <<>>
        ELSE LET lo == CHOOSE i \in keep : \A j \in keep : i <= j
                 hi == CHOOSE i \in keep : \A j \in keep : j <= i
             IN  SubSeq(s, lo, hi)

\* `pat in s`
Contains(s, pat) ==
    \E i \in 0..(Len(s) - Len(pat)) :
        s[i + 1] = pat[1] /\ SubSeq(s, i + 1, i + Len(pat)) = pat

\* any(pattern in s for pattern in patterns)
ContainsAny(s, patterns) == \E k \in DOMAIN patterns : Contains(s, patterns[k])

\* int(digits): the value of a run of decimal digits (leading zeros allowed)
RECURSIVE IntOf(_)
IntOf(ds) ==
    IF ds = <<>> THEN 0
    ELSE 10 * IntOf(SubSeq(ds, 1, Len(ds) - 1)) + DigitValue(ds[Len(ds)])

\* end (exclusive) of the maximal run of digits / of whitespace starting at position i
RECURSIVE DigitRunEnd(_, _)
DigitRunEnd(s, i) ==
    IF i <= Len(s) /\ IsDigit(s[i]) THEN DigitRunEnd(s, i + 1) ELSE i

RECURSIVE SpaceRunEnd(_, _)
SpaceRunEnd(s, i) ==
    IF i <= Len(s) /\ IsSpace(s[i]) THEN SpaceRunEnd(s, i + 1) ELSE i

SetMax(S) == CHOOSE x \in S : \A y \in S : y <= x
SetMin(S) == CHOOSE x \in S : \A y \in S : x <= y

\* ------------------------------------------------------------------------
\* style_analyzer.py: the word lists of build_style_heading_map
\* ------------------------------------------------------------------------
builtin_non_heading_styles ==
    { <<"N","o","r","m","a","l">>,
      <<"N","o"," ","S","p","a","c","i","n","g">>,
      <<"Q","u","o","t","e">>,
      <<"I","n","t","e","n","s","e"," ","Q","u","o","t","e">>,
      <<"S","u","b","t","l","e"," ","E","m","p","h","a","s","i","s">>,
      <<"I","n","t","e","n","s","e"," ","E","m","p","h","a","s","i","s">>,
      <<"S","t","r","o","n","g">>,
      <<"S","u","b","t","l","e"," ","R","e","f","e","r","e","n","c","e">>,
      <<"I","n","t","e","n","s","e"," ","R","e","f","e","r","e","n","c","e">>,
      <<"B","o","o","k"," ","T","i","t","l","e">>,
      <<"L","i","s","t"," ","P","a","r","a","g","r","a","p","h">>,
      <<"B","o","d","y"," ","T","e","x","t">>,
      <<"B","o","d","y"," ","T","e","x","t"," ","2">>,
      <<"B","o","d","y"," ","T","e","x","t"," ","3">>,
      <<"B","o","d","y"," ","T","e","x","t"," ","I","n","d","e","n","t">>,
      <<"B","o","d","y"," ","T","e","x","t"," ","F","i","r","s","t"," ","I","n","d","e","n","t">>,
      <<"B","o","d","y"," ","T","e","x","t"," ","F","i","r","s","t"," ","I","n","d","e","n","t"," ","2">>,
      <<"L","i","s","t">>,
      <<"L","i","s","t"," ","2">>,
      <<"L","i","s","t"," ","3">>,
      <<"L","i","s","t"," ","B","u","l","l","e","t">>,
      <<"L","i","s","t"," ","B","u","l","l","e","t"," ","2">>,
      <<"L","i","s","t"," ","B","u","l","l","e","t"," ","3">>,
      <<"L","i","s","t"," ","C","o","n","t","i","n","u","e">>,
      <<"L","i","s","t"," ","C","o","n","t","i","n","u","e"," ","2">>,
      <<"L","i","s","t"," ","C","o","n","t","i","n","u","e"," ","3">>,
      <<"L","i","s","t"," ","N","u","m","b","e","r">>,
      <<"L","i","s","t"," ","N","u","m","b","e","r"," ","2">>,
      <<"L","i","s","t"," ","N","u","m","b","e","r"," ","3">>,
      <<"C","a","p","t","i","o","n">>,
      <<"F","i","g","u","r","e"," ","C","a","p","t","i","o","n">>,
      <<"T","a","b","l","e"," ","C","a","p","t","i","o","n">>,
      <<"I","m","a","g","e"," ","C","a","p","t","i","o","n">>,
      <<"F","o","o","t","n","o","t","e"," ","T","e","x","t">>,
      <<"F","o","o","t","n","o","t","e"," ","R","e","f","e","r","e","n","c","e">>,
      <<"E","n","d","n","o","t","e"," ","T","e","x","t">>,
      <<"E","n","d","n","o","t","e"," ","R","e","f","e","r","e","n","c","e">>,
      <<"B","i","b","l","i","o","g","r","a","p","h","y">>,
      <<"I","n","d","e","x"," ","1">>,
      <<"I","n","d","e","x"," ","2">>,
      <<"I","n","d","e","x"," ","3">>,
      <<"I","n","d","e","x"," ","4">>,
      <<"I","n","d","e","x"," ","5">>,
      <<"I","n","d","e","x"," ","6">>,
      <<"I","n","d","e","x"," ","7">>,
      <<"I","n","d","e","x"," ","8">>,
      <<"I","n","d","e","x"," ","9">>,
      <<"T","O","C"," ","1">>,
      <<"T","O","C"," ","2">>,
      <<"T","O","C"," ","3">>,
      <<"T","O","C"," ","4">>,
      <<"T","O","C"," ","5">>,
      <<"T","O","C"," ","6">>,
      <<"T","O","C"," ","7">>,
      <<"T","O","C"," ","8">>,
      <<"T","O","C"," ","9">>,
      <<"T","O","C"," ","H","e","a","d","i","n","g">>,
      <<"T","a","b","l","e"," ","o","f"," ","C","o","n","t","e","n","t","s">>,
      <<"H","e","a","d","e","r">>,
      <<"F","o","o","t","e","r">>,
      <<"P","a","g","e"," ","N","u","m","b","e","r">>,
      <<"C","o","m","p","a","c","t">>,
      <<"P","l","a","i","n"," ","T","e","x","t">>,
      <<"H","T","M","L"," ","P","r","e","f","o","r","m","a","t","t","e","d">>,
      <<"D","o","c","u","m","e","n","t"," ","M","a","p">>,
      <<"H","y","p","e","r","l","i","n","k">>,
      <<"F","o","l","l","o","w","e","d","H","y","p","e","r","l","i","n","k">>,
      <<"M","a","c","r","o"," ","T","e","x","t">>,
      <<"B","l","o","c","k"," ","T","e","x","t">>,
      <<"D","a","t","e">>,
      <<"S","a","l","u","t","a","t","i","o","n">>,
      <<"S","i","g","n","a","t","u","r","e">>,
      <<"C","l","o","s","i","n","g">>,
      <<"S","a","n","s"," ","I","n","t","e","r","l","i","g","n","e">>,
      <<"T","e","x","t","e"," ","N","o","r","m","a","l">>,
      <<"C","i","t","a","t","i","o","n">>,
      <<"L","e","g","e","n","d","e">> }

strong_exclusions ==
    << <<"c","a","p","t","i","o","n">>,
       <<"f","o","o","t","n","o","t","e">>,
       <<"e","n","d","n","o","t","e">>,
       <<"t","o","c">>,
       <<"b","i","b","l","i","o","g","r","a","p","h","y">>,
       <<"f","o","r","m","a","t">>,
       <<"c","a","s","e">>,
       <<"o","v","e","r","v","i","e","w">>,
       <<"b","r","e","a","k">>,
       <<"d","i","v","i","d","e","r">>,
       <<"s","e","p","a","r","a","t","o","r">> >>
medium_exclusions ==
    << <<"q","u","o","t","e">>,
       <<"e","m","p","h","a","s","i","s">>,
       <<"s","t","r","o","n","g">>,
       <<"l","i","s","t">>,
       <<"c","o","n","t","i","n","u","e">>,
       <<"t","e","x","t">> >>
international_patterns ==
    << <<"t","i","t","r","e">>,
       <<"t","i","t","u","l","o">>,
       <<"u","b","e","r","s","c","h","r","i","f","t">>,
       <<"h","a","u","p","t">>,
       <<"s","o","u","s","-","t","i","t","r","e">>,
       <<"c","h","a","p","i","t","r","e">>,
       <<"p","a","r","t","i","e">>,
       <<"s","o","u","s","-","c","h","a","p","i","t","r","e">>,
       <<"s","o","u","s"," ","c","h","a","p","i","t","r","e">>,
       <<"s","o","u","s","-","s","e","c","t","i","o","n">>,
       <<"s","o","u","s"," ","s","e","c","t","i","o","n">> >>
org_patterns ==
    << <<"d","e","p","a","r","t","m","e","n","t"," ","h","e","a","d">>,
       <<"s","e","c","t","i","o","n"," ","h","e","a","d","e","r">>,
       <<"c","h","a","p","t","e","r"," ","t","i","t","l","e">>,
       <<"p","a","r","t"," ","t","i","t","l","e">> >>
title_header_patterns ==
    << <<"t","i","t","l","e">>,
       <<"h","e","a","d","e","r">> >>
level1_words ==
    << <<"t","i","t","l","e">>,
       <<"m","a","i","n">>,
       <<"p","r","i","n","c","i","p","a","l">>,
       <<"p","r","i","m","a","r","y">> >>
level2_words ==
    << <<"s","e","c","t","i","o","n">>,
       <<"c","h","a","p","t","e","r">>,
       <<"p","a","r","t">> >>
level3_words ==
    << <<"s","u","b","s","e","c","t","i","o","n">>,
       <<"s","u","b","c","h","a","p","t","e","r">> >>

HeadingWord == <<"h","e","a","d","i","n","g">>
StyleWord == <<"s","t","y","l","e">>
TextWord == <<"t","e","x","t">>

\* ------------------------------------------------------------------------
\* style_analyzer.py: the two regular expressions
\* ------------------------------------------------------------------------
\* builtin_heading_pattern.match(name), ^Heading\s+(\d+)$ with re.IGNORECASE:
\* <<>> when there is no match, else <<group(1)>>.  \s+ and \d+ are greedy over
\* disjoint classes, so the match is unique; $ also matches before a final newline.
builtin_heading_match(name) ==
    LET n  == Len(name)
        sp == SpaceRunEnd(name, 8)
        de == DigitRunEnd(name, sp)
    IN  IF /\ n >= 9
           /\ Lower(SubSeq(name, 1, 7)) = HeadingWord
           /\ sp > 8
           /\ de > sp
           /\ \/ de = n + 1
              \/ de = n /\ name[n] = "\n"
        THEN << SubSeq(name, sp, de - 1) >>
        ELSE <<>>

IsSep(c) == c \in {".", "-"}

\* (\d+)([.\-]\d+){0,8}: the ends (exclusive) of the successive numeric segments
\* the greedy match can stop after, at most 1 + 8 of them
MaxNumericSegments == 9
RECURSIVE SegmentEnds(_, _, _)
SegmentEnds(s, i, acc) ==
    LET e == DigitRunEnd(s, i)
    IN  IF e = i THEN acc
        ELSE IF e <= Len(s) /\ IsSep(s[e]) /\ Len(acc) + 1 < MaxNumericSegments
             THEN SegmentEnds(s, e + 1, Append(acc, e))
             ELSE Append(acc, e)

\* \b after the character before position p (a digit here): the next character
\* is missing or is not a word character
WordBoundaryAt(s, p) ==
    IsWordChar(s[p - 1]) # (p <= Len(s) /\ IsWordChar(s[p]))

\* numeric_leading_pattern.match(name), ^\s*(\d+)([.\-]\d+){0,8}\b:
\* <<>> when there is no match, else <<group(0)>>.  The engine tries the longest
\* run of segments first and backtracks segment by segment until \b holds.
numeric_leading_match(name) ==
    LET st   == SpaceRunEnd(name, 1)
        ends == SegmentEnds(name, st, <<>>)
        ok   == { k \in DOMAIN ends : WordBoundaryAt(name, ends[k]) }
    IN  IF ok = {} THEN <<>>
        ELSE << SubSeq(name, 1, ends[SetMax(ok)] - 1) >>

\* re.sub(r"^\s+", "", s)
LStrip(s) == SubSeq(s, SpaceRunEnd(s, 1), Len(s))

\* re.split(r"[.\-]", s)
RECURSIVE SplitSeps(_)
SplitSeps(s) ==
    LET seps == { i \in DOMAIN s : IsSep(s[i]) }
    IN  IF seps = {} THEN << s >>
        ELSE LET i == SetMin(seps)
             IN  << SubSeq(s, 1, i - 1) >> \o SplitSeps(SubSeq(s, i + 1, Len(s)))

\* str.isdigit()
IsDigitStr(s) == s # <<>> /\ \A i \in DOMAIN s : IsDigit(s[i])

IntMin(a, b) == IF a <= b THEN a ELSE b
IntMax(a, b) == IF a >= b THEN a ELSE b

\* a defect form of the numeric-leading level: the cap of 6 forgotten
numeric_leading_level_uncapped(matched) ==
    LET segments == SplitSeps(LStrip(matched))
        digits   == { k \in DOMAIN segments : IsDigitStr(segments[k]) }
    IN  IntMax(1, Cardinality(digits))

\* level = max(1, min(6, len(segments))) of the numeric-leading rule
NumericSegmentCap == 6
numeric_leading_level(matched) ==
    LET segments == SplitSeps(LStrip(matched))
        digits   == { k \in DOMAIN segments : IsDigitStr(segments[k]) }
    IN  IntMax(1, IntMin(NumericSegmentCap, Cardinality(digits)))

\* ------------------------------------------------------------------------
\* style_analyzer.py: _infer_heading_level
\* ------------------------------------------------------------------------
\* re.search(r'(\d+)', name): the first maximal run of digits, <<>> when none
first_number(name) ==
    LET ds == { i \in DOMAIN name : IsDigit(name[i]) }
    IN  IF ds = {} THEN <<>>
        ELSE LET i == SetMin(ds)
             IN  << SubSeq(name, i, DigitRunEnd(name, i) - 1) >>

MinHeadingLevel == 1
MaxHeadingLevel == 9

\* a defect form of the inference: the embedded number used without the range test
infer_heading_level_unchecked(style_name) ==
    LET style_lower  == Lower(style_name)
        number_match == first_number(style_name)
    IN  IF number_match # <<>>
        THEN IntOf(number_match[1])
        ELSE IF ContainsAny(style_lower, level1_words) THEN 1
        ELSE IF ContainsAny(style_lower, level2_words) THEN 2
        ELSE IF ContainsAny(style_lower, level3_words) THEN 3
        ELSE 2

infer_heading_level(style_name) ==
    LET style_lower  == Lower(style_name)
        number_match == first_number(style_name)
        level        == IF number_match = <<>> THEN 0 ELSE IntOf(number_match[1])
    IN  IF number_match # <<>> /\ MinHeadingLevel <= level /\ level <= MaxHeadingLevel
        THEN level
        ELSE IF ContainsAny(style_lower, level1_words) THEN 1
        ELSE IF ContainsAny(style_lower, level2_words) THEN 2
        ELSE IF ContainsAny(style_lower, level3_words) THEN 3
        ELSE 2

\* ------------------------------------------------------------------------
\* style_analyzer.py: build_style_heading_map
\* ------------------------------------------------------------------------
\* A style of doc.styles: [name, type, outline], outline being the list
\* outline_vals of the w:outlineLvl values of the style, each a text that
\* int() parses (parses, val) or rejects.

\* style_name in builtin_non_heading_styles, or equal to one of them in lower case
\* a defect form of rule 3: the lower-case comparison forgotten
is_builtin_non_heading_exact(style_name) == style_name \in builtin_non_heading_styles

builtin_non_heading_lower == { Lower(builtin) : builtin \in builtin_non_heading_styles }

is_builtin_non_heading(style_name) ==
    \/ style_name \in builtin_non_heading_styles
    \/ Strip(Lower(style_name)) \in builtin_non_heading_lower

Heading(rule, level) == [heading |-> TRUE, level |-> level, rule |-> rule]
BodyText(rule) == [heading |-> FALSE, level |-> 0, rule |-> rule]

MaxOutlineLevel == 8

\* a defect form of rule 10: the outline level taken as the heading level
outline_rule_unshifted(style) ==
    IF /\ style.outline # <<>>
       /\ style.outline[1].parses
       /\ 0 <= style.outline[1].val
       /\ style.outline[1].val <= MaxOutlineLevel
    THEN Heading(10, style.outline[1].val)
    ELSE BodyText(11)

\* rule 10: explicit outline level; an int() error is swallowed by the inner try
outline_rule(style) ==
    IF /\ style.outline # <<>>
       /\ style.outline[1].parses
       /\ 0 <= style.outline[1].val
       /\ style.outline[1].val <= MaxOutlineLevel
    THEN Heading(10, style.outline[1].val + 1)
    ELSE BodyText(11)

\* a defect form of rule 1: the number taken as a 0-based outline level
builtin_heading_rule_off_by_one(style_name) ==
    LET builtin_match == builtin_heading_match(style_name)
        level == IF builtin_match = <<>> THEN 0 ELSE IntOf(builtin_match[1])
    IN  IF builtin_match # <<>> /\ MinHeadingLevel <= level /\ level <= MaxHeadingLevel
        THEN Heading(1, level + 1)
        ELSE BodyText(0)

\* rule 1: built-in heading pattern with a number in 1..9
builtin_heading_rule(style_name) ==
    LET builtin_match == builtin_heading_match(style_name)
        level == IF builtin_match = <<>> THEN 0 ELSE IntOf(builtin_match[1])
    IN  IF builtin_match # <<>> /\ MinHeadingLevel <= level /\ level <= MaxHeadingLevel
        THEN Heading(1, level)
        ELSE BodyText(0)

\* rule 7: 'heading' in the name
custom_heading_rule(style_name, style_lower) ==
    IF Contains(style_lower, StyleWord) THEN Heading(7, infer_heading_level(style_name))
    ELSE IF Contains(style_lower, TextWord) THEN BodyText(7)
    ELSE Heading(7, infer_heading_level(style_name))

\* a defect form of the rule order: the exclusions of rules 4 and 5 tried after
\* the heading patterns of rules 6 to 9
classify_style_headings_first(style) ==
    LET style_name  == style.name
        style_lower == Strip(Lower(style_name))
        r1          == builtin_heading_rule(style_name)
        num_match   == numeric_leading_match(style_name)
    IN  IF r1.heading THEN r1
        ELSE IF num_match # <<>> THEN Heading(2, numeric_leading_level(num_match[1]))
        ELSE IF is_builtin_non_heading(style_name) THEN BodyText(3)
        ELSE IF ContainsAny(style_lower, international_patterns)
             THEN Heading(6, infer_heading_level(style_name))
        ELSE IF Contains(style_lower, HeadingWord)
             THEN custom_heading_rule(style_name, style_lower)
        ELSE IF ContainsAny(style_lower, org_patterns)
             THEN Heading(8, infer_heading_level(style_name))
        ELSE IF ContainsAny(style_lower, title_header_patterns)
             THEN Heading(9, infer_heading_level(style_name))
        ELSE IF ContainsAny(style_lower, strong_exclusions) THEN BodyText(4)
        ELSE IF ContainsAny(style_lower, medium_exclusions) THEN BodyText(5)
        ELSE outline_rule(style)

\* the body of the loop for one paragraph style: the rule that decides and its outcome
classify_style(style) ==
    LET style_name  == style.name
        style_lower == Strip(Lower(style_name))
        r1          == builtin_heading_rule(style_name)
        num_match   == numeric_leading_match(style_name)
    IN  IF r1.heading THEN r1
        ELSE IF num_match # <<>> THEN Heading(2, numeric_leading_level(num_match[1]))
        ELSE IF is_builtin_non_heading(style_name) THEN BodyText(3)
        ELSE IF ContainsAny(style_lower, strong_exclusions) THEN BodyText(4)
        ELSE IF ContainsAny(style_lower, medium_exclusions) THEN BodyText(5)
        ELSE IF ContainsAny(style_lower, international_patterns)
             THEN Heading(6, infer_heading_level(style_name))
        ELSE IF Contains(style_lower, HeadingWord)
             THEN custom_heading_rule(style_name, style_lower)
        ELSE IF ContainsAny(style_lower, org_patterns)
             THEN Heading(8, infer_heading_level(style_name))
        ELSE IF ContainsAny(style_lower, title_header_patterns)
             THEN Heading(9, infer_heading_level(style_name))
        ELSE outline_rule(style)

\* dict assignment d[k] = v
DictSet(d, k, v) == [x \in (DOMAIN d) \cup {k} |-> IF x = k THEN v ELSE d[x]]
EmptyDict == [x \in {} |-> 0]

\* style.type == WD_STYLE_TYPE.PARAGRAPH and style.name
is_named_paragraph_style(style) == style.type = "paragraph" /\ style.name # <<>>

\* for style in doc.styles: ... over the first n styles
RECURSIVE classify_styles(_, _)
classify_styles(styles, n) ==
    IF n = 0 THEN EmptyDict
    ELSE LET heading_map == classify_styles(styles, n - 1)
             style       == styles[n]
             outcome     == classify_style(style)
         IN  IF is_named_paragraph_style(style) /\ outcome.heading
             THEN DictSet(heading_map, style.name, outcome.level)
             ELSE heading_map

\* style.type or style.name of line 65 raises for this style
inspection_raises(style) == style.type = "error"

\* the iterations the for loop of line 64 completes: the try of line 63 encloses
\* the whole loop, so the first exception ends it (lines 195-196)
completed_iterations(styles) ==
    LET faulty == { i \in DOMAIN styles : inspection_raises(styles[i]) }
    IN  IF faulty = {} THEN Len(styles) ELSE SetMin(faulty) - 1

build_style_heading_map(styles) == classify_styles(styles, completed_iterations(styles))

\* ------------------------------------------------------------------------
\* Inputs: style catalogs, STYLE_MAP, the caller's metadata, documents
\* ------------------------------------------------------------------------
StyleNames ==
    { <<"H","e","a","d","i","n","g"," ","1">>,
      <<"h","e","a","d","i","n","g"," ","9">>,
      <<"H","E","A","D","I","N","G"," "," ","3">>,
      <<"H","e","a","d","i","n","g","\t","2">>,
      <<"H","e","a","d","i","n","g"," ","0","7">>,
      <<"H","e","a","d","i","n","g"," ","1","0">>,
      <<"H","e","a","d","i","n","g"," ","0">>,
      <<"H","e","a","d","i","n","g","1">>,
      <<"H","e","a","d","i","n","g"," ","4","\n">>,
      <<"1",".","2"," ","T","i","t","l","e">>,
      <<"1",".","2",".","3"," ","T","i","t","l","e">>,
      <<"2","-","3"," ","S","e","c","t","i","o","n">>,
      <<" ","1",".","2">>,
      <<"1",".","2",".","3",".","4",".","5",".","6",".","7"," ","D","e","e","p">>,
      <<"1",".","2",".","3","T","i","t","l","e">>,
      <<"1","2","a","b","c">>,
      <<"2","T","i","t","l","e">>,
      <<"1",".","2",".","3",".","4",".","5",".","6",".","7",".","8",".","9",".","1","0","x">>,
      <<"C","a","p","t","i","o","n">>,
      <<"F","o","o","t","n","o","t","e"," ","T","e","x","t">>,
      <<"T","O","C"," ","3">>,
      <<"I","n","d","e","x"," ","1">>,
      <<"T","O","C"," ","H","e","a","d","i","n","g">>,
      <<"B","o","o","k"," ","T","i","t","l","e">>,
      <<"b","o","o","k"," ","t","i","t","l","e">>,
      <<"T","i","t","l","e"," ","C","a","s","e">>,
      <<"M","y"," ","H","e","a","d","i","n","g"," ","S","t","y","l","e">>,
      <<"S","e","c","t","i","o","n"," ","H","e","a","d","e","r">>,
      <<"T","i","t","r","e"," ","2">>,
      <<"M","a","i","n"," ","H","e","a","d","i","n","g"," ","T","e","x","t">>,
      <<"S","u","b","s","e","c","t","i","o","n"," ","H","e","a","d","i","n","g">>,
      <<"P","r","i","n","c","i","p","a","l"," ","H","e","a","d","i","n","g">>,
      <<"M","a","i","n"," ","H","e","a","d","e","r">>,
      <<"1"," ","C","a","p","t","i","o","n">>,
      <<"T","i","t","r","e"," ","O","v","e","r","v","i","e","w">>,
      <<"Q","u","o","t","e"," ","H","e","a","d","i","n","g"," ","S","t","y","l","e">>,
      <<"C","h","a","p","t","e","r"," ","T","i","t","l","e"," ","L","i","s","t">>,
      <<"C","u","s","t","o","m">> }

ParagraphStyle(name) == [name |-> name, type |-> "paragraph", outline |-> <<>>]
OutlineVal(v) == [parses |-> TRUE, val |-> v]
UnparsableOutline == [parses |-> FALSE, val |-> 0]

CustomName == <<"C","u","s","t","o","m">>
OutlineStyles ==
    { [name |-> CustomName, type |-> "paragraph", outline |-> << o >>] :
        o \in { OutlineVal(v) : v \in {0 - 1, 0, 8, 9} } \cup { UnparsableOutline } }

\* a style with an exclusion word in its name and an explicit outline level
CustomTextName == <<"C","u","s","t","o","m"," ","T","e","x","t">>
ExcludedOutlineStyle ==
    [name |-> CustomTextName, type |-> "paragraph", outline |-> << OutlineVal(2) >>]

\* a character style with a heading name, and a paragraph style without a name
OtherStyles ==
    { [name |-> <<"H","e","a","d","i","n","g"," ","5">>, type |-> "character", outline |-> <<>>],
      [name |-> <<>>, type |-> "paragraph", outline |-> << OutlineVal(0) >>] }

\* a style whose inspection raises
BrokenName == <<"B","r","o","k","e","n">>
FaultyStyle == [name |-> BrokenName, type |-> "error", outline |-> <<>>]

\* a second style that no name rule matches, with outline level 0
AnnexeName == <<"A","n","n","e","x","e">>
AnnexeStyle == [name |-> AnnexeName, type |-> "paragraph", outline |-> << OutlineVal(0) >>]

StyleCandidates ==
    { ParagraphStyle(n) : n \in StyleNames } \cup OutlineStyles
        \cup { ExcludedOutlineStyle, AnnexeStyle }
        \cup OtherStyles

SeqsUpTo(S, n) == UNION { [1..k -> S] : k \in 0..n }

\* the styles of a document have pairwise distinct names
DistinctNames(styles) ==
    \A i, j \in DOMAIN styles : styles[i].name = styles[j].name => i = j

Catalogs == { c \in SeqsUpTo(StyleCandidates, MaxStyles) : DistinctNames(c) }

\* catalogs in which exactly one style cannot be inspected
FaultyCatalogs ==
    { c \in SeqsUpTo(StyleCandidates \cup { FaultyStyle }, MaxStyles) :
        /\ DistinctNames(c)
        /\ Cardinality({ i \in DOMAIN c : inspection_raises(c[i]) }) = 1 }

\* STYLE_MAP of formatting_helpers: either empty or a legacy table
LegacyName == <<"L","e","g","a","c","y">>
CaptionName == <<"C","a","p","t","i","o","n">>
ExtraName == <<"E","x","t","r","a">>
NormalName == <<"N","o","r","m","a","l">>
HeadingStyleName(l) == <<"H","e","a","d","i","n","g"," ">> \o << DigitChars[l + 1] >>

StyleMapChoices ==
    { EmptyDict, (HeadingStyleName(2) :> 5) @@ (LegacyName :> 1) }

\* metadata["style_heading_map"]: absent (not a dict), empty, or a dict of overrides
NoOverrides == [is_dict |-> FALSE, map |-> EmptyDict]
OverrideChoices ==
    { NoOverrides,
      [is_dict |-> TRUE, map |-> EmptyDict],
      [is_dict |-> TRUE, map |-> (CaptionName :> 2)],
      [is_dict |-> TRUE,
       map |-> (CaptionName :> 2) @@ (HeadingStyleName(1) :> 3)
                 @@ (LegacyName :> 4) @@ (ExtraName :> 6)],
      [is_dict |-> TRUE, map |-> (CaptionName :> 0) @@ (ExtraName :> 12)] }

MergeCandidates ==
    { ParagraphStyle(n) :
        n \in { HeadingStyleName(1), HeadingStyleName(2), CaptionName, LegacyName } }

\* the catalog of the converted documents: Heading 1..MaxLevel and Normal
DocCatalog ==
    [i \in 1..(MaxLevel + 1) |->
        IF i <= MaxLevel THEN ParagraphStyle(HeadingStyleName(i)) ELSE ParagraphStyle(NormalName)]

\* block items: a paragraph with a style of the catalog, or a table
Paragraph(style) == [kind |-> "paragraph", style |-> style]
TableItem == [kind |-> "table", style |-> <<>>]
BlockItems ==
    { Paragraph(DocCatalog[i].name) : i \in DOMAIN DocCatalog } \cup { TableItem }

\* the heading sequence [1,2,2,3,1] of the specification's example
ExampleDoc ==
    << Paragraph(HeadingStyleName(1)), Paragraph(HeadingStyleName(2)),
       Paragraph(HeadingStyleName(2)), Paragraph(HeadingStyleName(3)),
       Paragraph(HeadingStyleName(1)) >>

Docs == SeqsUpTo(BlockItems, MaxBlocks) \cup { ExampleDoc }

FilePaths ==
    { <<"d","/","r",".","v","2",".","d","o","c","x">>,
      <<".","d","o","c","x">>,
      <<"d","/">> }

\* the styles of the filter panel, the flags the panel can hold for them and the
\* levels get_levels can have detected for them
FilterStyles == { HeadingStyleName(1), HeadingStyleName(2), CaptionName }
ExclusionChoices == UNION { [S -> BOOLEAN] : S \in SUBSET FilterStyles }
StyleLevelChoices == [FilterStyles -> 1..MaxLevel]

\* colour values of a run: missing, empty, hexadecimal in both cases, theme and
\* background tokens, a name
ColorValues ==
    { << "None" >>, <<>>,
      <<"#","F","F","0","0","0","0">>, <<"#","f","f","0","0","0","0">>, <<"#","f","e","0","5","0","5">>, <<"#","0","0","F","F","0","0">>, <<"#","8","0","8","0","8","0">>, <<"#","z","z","0","0","0","0">>,
      <<"t","h","e","m","e","-","a","c","c","e","n","t","1">>, <<"t","h","e","m","e","-","d","a","r","k","1">>,
      <<"b","a","c","k","g","r","o","u","n","d","-","y","e","l","l","o","w">>, <<"r","e","d">> }

ColorMappingChoices ==
    { [x \in {} |-> "None"],
      (<<"#","f","f","0","0","0","0">> :> "color-red"),
      (<<"#","F","F","0","0","0","0">> :> "color-red"),
      (<<"#","f","e","0","5","0","5">> :> "color-green") @@ (<<"t","h","e","m","e","-","a","c","c","e","n","t","1">> :> "color-green")
          @@ (<<"b","a","c","k","g","r","o","u","n","d","-","y","e","l","l","o","w">> :> "color-yellow") }

ThemeMapChoices ==
    { [x \in {} |-> "None"], (<<"a","c","c","e","n","t","1">> :> "color-blue") }

\* one entry of the tolerance table: class, hue range, second hue range (or
\* none), minimal saturation and value in percent
ToleranceEntry(out_class, hue, hue2, sat_min, val_min) ==
    [out_class |-> out_class, hue |-> hue, hue2 |-> hue2, sat_min |-> sat_min, val_min |-> val_min]

ToleranceChoices ==
    { <<>>,
      << ToleranceEntry("color-red", << 0, 15 >>, << 345, 360 >>, 40, 40),
         ToleranceEntry("color-green", << 90, 150 >>, <<>>, 0, 0) >> }

ColorRules ==
    [color_mappings : ColorMappingChoices, theme_map : ThemeMapChoices,
     tolerance : ToleranceChoices]

\* Document(file_path): the exceptions python-docx raises for a missing file or a
\* file that is not a package
NoError == "none"
LoadErrors == { "PackageNotFoundError", "BadZipFile" }

VARIABLES
    pc,                   \* position in convert_docx_to_dita_internal
    file_path,            \* the file_path argument
    doc_styles,           \* doc.styles
    blocks,               \* iter_block_items(doc)
    STYLE_MAP,            \* formatting_helpers.STYLE_MAP
    user_overrides,       \* metadata.get("style_heading_map")
    style_heading_map,    \* the style -> level dict under construction
    progress,             \* the messages given to progress_callback, in order
    node_level,           \* structural nodes, node 1 being the root: heading level
    node_title,           \*   index of the heading paragraph (0 for the root)
    node_children,        \*   child nodes, in document order
    node_content,         \*   indexes of the directly owned block items
    node_role,            \*   role set by determine_node_roles
    stack,                \* the builder's stack of open nodes, top last
    next_block,           \* index of the next block item the builder reads
    heading_counters,     \* heading_counters
    gen_pending,          \* nodes the generator has still to visit, next first
    topics,               \* context.topics, in order of insertion
    topicrefs,            \* the topicref elements under map_root, in document order
    load_error,           \* the exception Document(file_path) raises, NoError when it succeeds
    raised,               \* the exception that left the function, NoError while none did
    exclusions,           \* build_exclusion_map: the style -> excluded flags of the panel
    style_levels,         \* the levels get_levels detected for these styles
    style_excl_map,       \* the level -> set of styles map build_exclusion_map returned
    color_value,          \* convert_color_to_outputclass: the colour of the run
    color_rules,          \* its colour rules: color_mappings, theme_map, tolerance
    outputclass,          \* the class it returned
    ditamap_root,         \* DocxFilterProvider: context.ditamap_root
    has_restore,          \* hasattr(context, 'restore_from_original')
    saved_root,           \* the root restore_from_original installs, NoRoot when it keeps the root
    restore_raises,       \* restore_from_original raises
    analysis_raises,      \* the heading analysis service raises
    original_root,        \* the local original_root of the provider method
    provider_result,      \* what the provider method returned
    plugin_state,         \* DocxConverterPlugin: where the plugin is in its lifecycle
    document_handler,     \* self._document_handler
    marker_provider,      \* self._marker_provider
    registered,           \* what the registries hold under self.plugin_id
    has_service_registry, \* self.app_context and hasattr(self.app_context, 'service_registry')
    has_ui_registry,      \* self.app_context and hasattr(self.app_context, 'ui_registry')
    panel_api,            \* the UI registry has the panel factory methods
    marker_api,           \* the UI registry has the marker provider methods
    calls                 \* on_activate and on_deactivate calls made so far

style_vars == << doc_styles, STYLE_MAP, user_overrides >>
input_vars == << file_path, blocks, load_error >>
tree_vars == << node_level, node_title, node_children, node_content, stack, next_block >>
gen_vars == << heading_counters, gen_pending, topics, topicrefs >>
filter_vars == << exclusions, style_levels, style_excl_map >>
color_vars == << color_value, color_rules, outputclass >>
context_vars == << has_restore, saved_root, restore_raises, analysis_raises >>
provider_vars == << ditamap_root, context_vars, original_root, provider_result >>
app_context_vars == << has_service_registry, has_ui_registry, panel_api, marker_api >>
plugin_vars == << plugin_state, document_handler, marker_provider, registered, app_context_vars, calls >>
service_vars == << filter_vars, color_vars, provider_vars, plugin_vars >>

vars == << pc, file_path, doc_styles, blocks, STYLE_MAP, user_overrides, style_heading_map,
           progress, node_level, node_title, node_children, node_content, node_role,
           stack, next_block, heading_counters, gen_pending, topics, topicrefs,
           load_error, raised, exclusions, style_levels, style_excl_map,
           color_value, color_rules, outputclass, ditamap_root, has_restore, saved_root,
           restore_raises, analysis_raises, original_root, provider_result,
           plugin_state, document_handler, marker_provider, registered,
           has_service_registry, has_ui_registry, panel_api, marker_api, calls >>

\* a defect form of the notification: every message delivered twice
NotifyTwice(msg) == progress' = progress \o << msg, msg >>

\* if progress_callback: progress_callback(msg)
Notify(msg) == progress' = Append(progress, msg)

\* ------------------------------------------------------------------------
\* convert_docx_to_dita_internal, lines 98-125: style detection and merges
\* ------------------------------------------------------------------------
DetectStyles ==
    /\ pc = "detect-styles"
    /\ Notify("detect-styles")
    /\ style_heading_map' = build_style_heading_map(doc_styles)
    /\ pc' = "legacy-fill"
    /\ UNCHANGED << service_vars, style_vars, input_vars, raised, tree_vars, node_role, gen_vars >>

\* for k, v in STYLE_MAP.items(): if k not in style_heading_map: style_heading_map[k] = v
legacy_fill(heading_map, legacy) ==
    [k \in (DOMAIN heading_map) \cup (DOMAIN legacy) |->
        IF k \in DOMAIN heading_map THEN heading_map[k] ELSE legacy[k]]

MergeStyleMap ==
    /\ pc = "legacy-fill"
    /\ style_heading_map' = legacy_fill(style_heading_map, STYLE_MAP)
    /\ pc' = "user-overrides"
    /\ UNCHANGED << service_vars, style_vars, input_vars, raised, progress, tree_vars, node_role, gen_vars >>

\* a defect form of the override loop: existing entries keep their level
apply_user_overrides_fill_only(heading_map, overrides) ==
    IF overrides.is_dict
    THEN [k \in (DOMAIN heading_map) \cup (DOMAIN overrides.map) |->
            IF k \in DOMAIN heading_map THEN heading_map[k] ELSE overrides.map[k]]
    ELSE heading_map

\* if isinstance(metadata.get("style_heading_map"), dict): for k, v in ...: style_heading_map[k] = v
apply_user_overrides(heading_map, overrides) ==
    IF overrides.is_dict
    THEN [k \in (DOMAIN heading_map) \cup (DOMAIN overrides.map) |->
            IF k \in DOMAIN overrides.map THEN overrides.map[k] ELSE heading_map[k]]
    ELSE heading_map

ApplyUserOverrides ==
    /\ pc = "user-overrides"
    /\ style_heading_map' = apply_user_overrides(style_heading_map, user_overrides)
    /\ pc' = "analyze-structure"
    /\ UNCHANGED << service_vars, style_vars, input_vars, raised, progress, tree_vars, node_role, gen_vars >>

\* ------------------------------------------------------------------------
\* convert_docx_to_dita_internal, lines 64-82: load the document
\* ------------------------------------------------------------------------
\* lines 65-67: the first milestone, before the file is touched
NotifyLoading ==
    /\ pc = "load"
    /\ Notify("load")
    /\ pc' = "open"
    /\ UNCHANGED << service_vars, style_vars, input_vars, raised, style_heading_map, tree_vars, node_role, gen_vars >>

\* line 68: doc = Document(file_path) succeeds
LoadDocument ==
    /\ pc = "open"
    /\ load_error = NoError
    /\ pc' = "extract-images"
    /\ UNCHANGED << service_vars, style_vars, input_vars, raised, style_heading_map, progress, tree_vars,
                    node_role, gen_vars >>

\* line 68: Document(file_path) raises; control goes to the except clause of line 215
LoadDocumentFails ==
    /\ pc = "open"
    /\ load_error # NoError
    /\ pc' = "except"
    /\ UNCHANGED << service_vars, style_vars, input_vars, raised, style_heading_map, progress, tree_vars,
                    node_role, gen_vars >>

\* lines 69-82: the images are extracted, then the milestone is notified and the
\* map root is set up
ExtractImages ==
    /\ pc = "extract-images"
    /\ Notify("extract-images")
    /\ pc' = "detect-styles"
    /\ UNCHANGED << service_vars, style_vars, input_vars, raised, style_heading_map, tree_vars, node_role, gen_vars >>

\* a defect form of the except clause: the error wrapped in a new one
reraise_wrapped(exc) == "ConversionError"

\* a bare raise: the exception being handled is raised again
reraise(exc) == exc

\* lines 215-217: except Exception as exc: logger.error(...); raise
ReraiseError ==
    /\ pc = "except"
    /\ raised' = reraise(load_error)
    /\ pc' = "raised"
    /\ UNCHANGED << service_vars, style_vars, input_vars, style_heading_map, progress, tree_vars, node_role,
                    gen_vars >>

\* ------------------------------------------------------------------------
\* Structure Builder (build_document_structure)
\* ------------------------------------------------------------------------
RootNode == 1
RootLevel == 0

Top(s) == s[Len(s)]

\* a paragraph whose style maps to a level
is_heading(block, heading_map) ==
    block.kind = "paragraph" /\ block.style \in DOMAIN heading_map

\* a defect form of the pop: a node of equal level is left open
RECURSIVE pop_until_above(_, _, _)
pop_until_above(s, levels, L) ==
    IF s # <<>> /\ ~(levels[Top(s)] <= L)
    THEN pop_until_above(SubSeq(s, 1, Len(s) - 1), levels, L)
    ELSE s

\* a defect form of the pop: no open node is ever closed
pop_never(s, levels, L) == s

\* pop the stack until its top has level < L
RECURSIVE pop_until(_, _, _)
pop_until(s, levels, L) ==
    IF s # <<>> /\ ~(levels[Top(s)] < L)
    THEN pop_until(SubSeq(s, 1, Len(s) - 1), levels, L)
    ELSE s

StartStructure ==
    /\ pc = "analyze-structure"
    /\ Notify("analyze-structure")
    /\ node_level' = << RootLevel >>
    /\ node_title' = << 0 >>
    /\ node_children' = << <<>> >>
    /\ node_content' = << <<>> >>
    /\ stack' = << RootNode >>
    /\ next_block' = 1
    /\ pc' = "build"
    /\ UNCHANGED << service_vars, style_vars, input_vars, raised, style_heading_map, node_role, gen_vars >>

BuildHeading ==
    /\ pc = "build"
    /\ next_block <= Len(blocks)
    /\ is_heading(blocks[next_block], style_heading_map)
    /\ LET L      == style_heading_map[blocks[next_block].style]
           open   == pop_until(stack, node_level, L)
           parent == Top(open)
           node   == Len(node_level) + 1
       IN  /\ node_level' = Append(node_level, L)
           /\ node_title' = Append(node_title, next_block)
           /\ node_children' =
                  Append([node_children EXCEPT ![parent] = Append(@, node)], <<>>)
           /\ node_content' = Append(node_content, <<>>)
           /\ stack' = Append(open, node)
    /\ next_block' = next_block + 1
    /\ UNCHANGED << pc, service_vars, style_vars, input_vars, raised, style_heading_map, progress, node_role, gen_vars >>

BuildContent ==
    /\ pc = "build"
    /\ next_block <= Len(blocks)
    /\ ~is_heading(blocks[next_block], style_heading_map)
    /\ node_content' = [node_content EXCEPT ![Top(stack)] = Append(@, next_block)]
    /\ next_block' = next_block + 1
    /\ UNCHANGED << pc, service_vars, style_vars, input_vars, raised, style_heading_map, progress, node_role,
                    node_level, node_title, node_children, stack, gen_vars >>

\* ------------------------------------------------------------------------
\* Role Resolver (determine_node_roles)
\* ------------------------------------------------------------------------
\* a defect form of the rule: owned content ignored
resolve_role_by_children(children, content) ==
    IF children # <<>> THEN "Container" ELSE "ContentUnit"

resolve_role(children, content) ==
    IF children # <<>> /\ content = <<>> THEN "Container" ELSE "ContentUnit"

DetermineRoles ==
    /\ pc = "build"
    /\ next_block > Len(blocks)
    /\ Notify("determine-roles")
    /\ node_role' = [n \in DOMAIN node_level |-> resolve_role(node_children[n], node_content[n])]
    /\ pc' = "build-topics"
    /\ UNCHANGED << service_vars, style_vars, input_vars, raised, style_heading_map, tree_vars, gen_vars >>

\* ------------------------------------------------------------------------
\* Topic Generator (generate_dita_from_structure), driven from lines 156-170
\* ------------------------------------------------------------------------
NumHeadingCounters == 9

\* a defect form of the initial counters: numbering started at 1
initial_heading_counters_ones == [i \in 1..NumHeadingCounters |-> 1]

\* heading_counters = [0] * 9
initial_heading_counters == [i \in 1..NumHeadingCounters |-> 0]

\* increment the counter of level L, reset the counters of all deeper levels
bump_counters(counters, L) ==
    [i \in DOMAIN counters |->
        IF i = L THEN counters[i] + 1 ELSE IF i > L THEN 0 ELSE counters[i]]

\* the sequence number of a heading of level L: the counters of levels 1..L
heading_number(counters, L) == SubSeq(counters, 1, L)

Pending(nodes, entry) == [i \in DOMAIN nodes |-> [node |-> nodes[i], parent |-> entry]]

StartTopics ==
    /\ pc = "build-topics"
    /\ Notify("build-topics")
    /\ heading_counters' = initial_heading_counters
    /\ gen_pending' = Pending(node_children[RootNode], 0)
    /\ pc' = "generate"
    /\ UNCHANGED << service_vars, style_vars, input_vars, raised, style_heading_map, tree_vars, node_role,
                    topics, topicrefs >>

HeadingTitle(block) == [kind |-> "heading", block |-> block, text |-> <<>>]
FileTitle(text) == [kind |-> "filename", block |-> 0, text |-> text]

GenerateTopic ==
    /\ pc = "generate"
    /\ gen_pending # <<>>
    /\ LET node     == gen_pending[1].node
           L        == node_level[node]
           topic_id == Len(topics) + 1
           entry    == Len(topicrefs) + 1
           counters == bump_counters(heading_counters, L)
       IN  /\ heading_counters' = counters
           /\ topics' = Append(topics,
                  [id |-> topic_id, title |-> HeadingTitle(node_title[node]),
                   body |-> node_content[node], node |-> node])
           /\ topicrefs' = Append(topicrefs,
                  [href |-> topic_id, parent |-> gen_pending[1].parent,
                   navtitle |-> HeadingTitle(node_title[node]),
                   data_level |-> L, toc_index |-> heading_number(counters, L),
                   foldout |-> FALSE, tdm |-> FALSE, node |-> node])
           /\ gen_pending' = Pending(node_children[node], entry) \o Tail(gen_pending)
    /\ UNCHANGED << pc, service_vars, style_vars, input_vars, raised, style_heading_map, progress, tree_vars, node_role >>

\* ------------------------------------------------------------------------
\* convert_docx_to_dita_internal, lines 172-213: the single-topic fallback
\* ------------------------------------------------------------------------
\* os.path.basename(p)
basename(p) ==
    LET seps == { i \in DOMAIN p : p[i] = "/" }
    IN  IF seps = {} THEN p ELSE SubSeq(p, SetMax(seps) + 1, Len(p))

\* os.path.splitext(name)[0] for a name without a directory part: the extension
\* starts at the last dot, unless only dots precede that dot
splitext_root(name) ==
    LET dots == { i \in DOMAIN name : name[i] = "." }
    IN  IF dots = {} THEN name
        ELSE LET d == SetMax(dots)
             IN  IF \E i \in 1..(d - 1) : name[i] # "." THEN SubSeq(name, 1, d - 1) ELSE name

DefaultTitle == <<"D","o","c","u","m","e","n","t">>

\* a defect form of the fallback title: the extension kept
fallback_title_with_extension(path) ==
    LET name == basename(path)
    IN  IF name # <<>> THEN name ELSE DefaultTitle

\* os.path.splitext(os.path.basename(file_path))[0] or "Document"
fallback_title(path) ==
    LET root == splitext_root(basename(path))
    IN  IF root # <<>> THEN root ELSE DefaultTitle

\* a defect form of the guard: the fallback topic always added
needs_fallback_always(ts) == TRUE

\* if not context.topics
needs_fallback(ts) == ts = <<>>

AllBlocks(bs) == [i \in DOMAIN bs |-> i]

FallbackTopic ==
    /\ pc = "generate"
    /\ gen_pending = <<>>
    /\ needs_fallback(topics)
    /\ LET topic_id == Len(topics) + 1
           title    == FileTitle(fallback_title(file_path))
       IN  /\ topics' = Append(topics,
                  [id |-> topic_id, title |-> title, body |-> AllBlocks(blocks), node |-> 0])
           /\ topicrefs' = Append(topicrefs,
                  [href |-> topic_id, parent |-> 0, navtitle |-> title,
                   data_level |-> 1, toc_index |-> << 1 >>,
                   foldout |-> FALSE, tdm |-> FALSE, node |-> 0])
    /\ pc' = "finish"
    /\ UNCHANGED << service_vars, style_vars, input_vars, raised, style_heading_map, progress, tree_vars, node_role,
                    heading_counters, gen_pending >>

SkipFallback ==
    /\ pc = "generate"
    /\ gen_pending = <<>>
    /\ ~needs_fallback(topics)
    /\ pc' = "finish"
    /\ UNCHANGED << service_vars, style_vars, input_vars, raised, style_heading_map, progress, tree_vars, node_role,
                    gen_vars >>

\* lines 219-222
Finish ==
    /\ pc = "finish"
    /\ Notify("finished")
    /\ pc' = "done"
    /\ UNCHANGED << service_vars, style_vars, input_vars, raised, style_heading_map, tree_vars, node_role, gen_vars >>

\* ------------------------------------------------------------------------
\* filter_provider.py: DocxFilterProvider.build_exclusion_map
\* ------------------------------------------------------------------------
\* the styles flagged excluded
flagged(excl) == { style \in DOMAIN excl : excl[style] }

\* style_excl_map.setdefault(1, set()).add(style): the one key the method uses
DefaultExclusionLevel == 1

\* for style, excluded in exclusions.items(): if excluded: add style at key 1
build_exclusion_map(excl) ==
    IF flagged(excl) = {} THEN EmptyDict
    ELSE (DefaultExclusionLevel :> flagged(excl))

BuildExclusionMap ==
    /\ pc = "exclusion-map"
    /\ style_excl_map' = build_exclusion_map(exclusions)
    /\ pc' = "exclusion-map-built"
    /\ UNCHANGED << exclusions, style_levels, color_vars, provider_vars, plugin_vars, style_vars, input_vars, raised,
                    style_heading_map, progress, tree_vars, node_role, gen_vars >>

\* ------------------------------------------------------------------------
\* color_utils.py: convert_color_to_outputclass
\* ------------------------------------------------------------------------
\* None, as a colour value and as a returned class
NoneValue == << "None" >>
NoClass == "None"

\* dict.get(key): the value, None when the key is absent
DictGet(d, k) == IF k \in DOMAIN d THEN d[k] ELSE NoClass

\* str.startswith(prefix)
StartsWith(s, prefix) ==
    Len(s) >= Len(prefix) /\ SubSeq(s, 1, Len(prefix)) = prefix

ThemePrefix == <<"t","h","e","m","e","-">>
BackgroundPrefix == <<"b","a","c","k","g","r","o","u","n","d","-">>

\* int(c, 16) of one character of a lower-cased string; -1 when int() raises
HexChars == <<"0","1","2","3","4","5","6","7","8","9","a","b","c","d","e","f">>
HexDigit(c) ==
    IF c \in Range(HexChars) THEN (CHOOSE i \in DOMAIN HexChars : HexChars[i] = c) - 1 ELSE 0 - 1

\* int(s[i:i+2], 16) for two hexadecimal digits; -1 when int() raises
HexByte(s, i) ==
    IF HexDigit(s[i]) < 0 \/ HexDigit(s[i + 1]) < 0 THEN 0 - 1
    ELSE 16 * HexDigit(s[i]) + HexDigit(s[i + 1])

\* colorsys.rgb_to_hsv on r/255, g/255, b/255, kept in exact fractions:
\* hue in degrees = hnum / den, saturation = delta / maxc, value = maxc / 255
rgb_to_hsv(r, g, b) ==
    LET maxc  == IntMax(r, IntMax(g, b))
        minc  == IntMin(r, IntMin(g, b))
        delta == maxc - minc
        den   == IF delta = 0 THEN 1 ELSE delta
        raw   == IF delta = 0 THEN 0
                 ELSE IF r = maxc THEN 60 * (g - b)
                 ELSE IF g = maxc THEN 120 * delta + 60 * (b - r)
                 ELSE 240 * delta + 60 * (r - g)
    IN  [hnum |-> (raw + 360 * den) % (360 * den), den |-> den, delta |-> delta, maxc |-> maxc]

\* _in_range(hrange): start <= h_deg <= end, False for a missing range
in_range(hrange, hsv) ==
    /\ hrange # <<>>
    /\ hrange[1] * hsv.den <= hsv.hnum
    /\ hsv.hnum <= hrange[2] * hsv.den

\* the test of lines 76-80 for one entry of the tolerance table
tolerance_entry_matches(entry, hsv) ==
    /\ in_range(entry.hue, hsv) \/ in_range(entry.hue2, hsv)
    /\ IF hsv.delta = 0 THEN 0 >= entry.sat_min
       ELSE 100 * hsv.delta >= entry.sat_min * hsv.maxc
    /\ 100 * hsv.maxc >= entry.val_min * 255

\* lines 49-85: the first entry of the tolerance table the colour falls in
tolerance_match(color_lower, tolerance_cfg) ==
    LET r == HexByte(color_lower, 2)
        g == HexByte(color_lower, 4)
        b == HexByte(color_lower, 6)
    IN  IF r < 0 \/ g < 0 \/ b < 0 THEN NoClass
        ELSE LET hsv  == rgb_to_hsv(r, g, b)
                 hits == { k \in DOMAIN tolerance_cfg :
                             tolerance_entry_matches(tolerance_cfg[k], hsv) }
             IN  IF hits = {} THEN NoClass ELSE tolerance_cfg[SetMin(hits)].out_class

HexColorLength == 7

convert_color_to_outputclass(value, rules) ==
    IF value = NoneValue \/ value = <<>> THEN NoClass
    ELSE LET color_lower == Lower(value)
         IN  IF color_lower \in DOMAIN rules.color_mappings
             THEN rules.color_mappings[color_lower]
             ELSE IF StartsWith(value, ThemePrefix)
             THEN DictGet(rules.theme_map, SubSeq(value, Len(ThemePrefix) + 1, Len(value)))
             ELSE IF StartsWith(value, BackgroundPrefix)
             THEN DictGet(rules.color_mappings, value)
             ELSE IF /\ StartsWith(color_lower, << "#" >>)
                     /\ Len(color_lower) = HexColorLength
                     /\ rules.tolerance # <<>>
             THEN tolerance_match(color_lower, rules.tolerance)
             ELSE NoClass

ConvertColor ==
    /\ pc = "colour"
    /\ outputclass' = convert_color_to_outputclass(color_value, color_rules)
    /\ pc' = "colour-converted"
    /\ UNCHANGED << color_value, color_rules, filter_vars, provider_vars, plugin_vars, style_vars, input_vars, raised,
                    style_heading_map, progress, tree_vars, node_role, gen_vars >>

\* ------------------------------------------------------------------------
\* filter_provider.py: get_counts, get_occurrences, get_levels
\* ------------------------------------------------------------------------
\* context.ditamap_root is None (or the attribute is missing)
NoRoot == "None"
\* the root under edit and the root of the original structure
EditedRoot == "edited-root"
SavedRoot == "saved-root"

\* the empty dict of the except clause, and no call made yet
EmptyResult == "{}"
NoResult == "no-call"

\* context.restore_from_original(): the saved original structure, when there is
\* one, becomes the root of the context
restore_from_original(root) == IF saved_root = NoRoot THEN root ELSE saved_root

\* if original_root is not None: context.ditamap_root = original_root
root_after_analysis(before, current) == IF before # NoRoot THEN before ELSE current

\* the body shared by the three methods, the analysis returning `analysis`
provider_call(analysis) ==
    LET restored == IF has_restore THEN restore_from_original(ditamap_root) ELSE ditamap_root
    IN  /\ original_root' = ditamap_root
        /\ IF has_restore /\ restore_raises
           THEN /\ ditamap_root' = ditamap_root
                /\ provider_result' = EmptyResult
           ELSE IF analysis_raises
           THEN /\ ditamap_root' = restored
                /\ provider_result' = EmptyResult
           ELSE /\ ditamap_root' = root_after_analysis(ditamap_root, restored)
                /\ provider_result' = analysis
        /\ pc' = "provider-returned"
        /\ UNCHANGED << context_vars, filter_vars, color_vars, plugin_vars, style_vars, input_vars, raised,
                        style_heading_map, progress, tree_vars, node_role, gen_vars >>

\* lines 17-27
GetCounts == pc = "provider" /\ provider_call("counts")

\* lines 29-39
GetOccurrences == pc = "provider" /\ provider_call("occurrences")

\* lines 47-57
GetLevels == pc = "provider" /\ provider_call("levels")

\* ---- DocxConverterPlugin: on_activate and on_deactivate ----
MaxCalls == 3

NoObject == "None"
Handler == "DocxDocumentHandler"
MarkerProvider == "DocxStyleMarkerProvider"

\* what the registries can hold under the plugin's id
ServiceEntry == "DocumentHandler"
PanelEntry == "heading_filter"
MarkerEntry == "marker_provider"

\* the registry call that raises an exception other than AttributeError
NoFault == "none"
ActivateFaults == { "register_service", "register_panel_factory", "register_marker_provider" }
DeactivateFaults == { "unregister_service", "unregister_panel_factory", "unregister_marker_provider" }

\* on_activate, statement by statement; a registry without the panel or marker
\* methods raises AttributeError, which the inner handlers catch
on_activate(fault) ==
    LET service_raises == has_service_registry /\ fault = "register_service"
        after_service == IF has_service_registry /\ ~service_raises
                         THEN registered \cup { ServiceEntry } ELSE registered
        ui_reached == ~service_raises /\ has_ui_registry
        panel_raises == ui_reached /\ panel_api /\ fault = "register_panel_factory"
        after_panel == IF ui_reached /\ panel_api /\ ~panel_raises
                       THEN after_service \cup { PanelEntry } ELSE after_service
        marker_reached == ui_reached /\ ~panel_raises
        marker_raises == marker_reached /\ marker_api /\ fault = "register_marker_provider"
        after_marker == IF marker_reached /\ marker_api /\ ~marker_raises
                        THEN after_panel \cup { MarkerEntry } ELSE after_panel
    IN  [ document_handler |-> Handler,
          marker_provider |-> IF marker_reached THEN MarkerProvider ELSE marker_provider,
          registered |-> after_marker,
          raises |-> service_raises \/ panel_raises \/ marker_raises ]

\* on_deactivate, statement by statement; the outer handler logs any other
\* exception and returns
on_deactivate(fault) ==
    LET service_called == has_service_registry /\ document_handler # NoObject
        service_raises == service_called /\ fault = "unregister_service"
        service_done == service_called /\ ~service_raises
        after_service == IF service_done THEN registered \ { ServiceEntry } ELSE registered
        ui_reached == ~service_raises /\ has_ui_registry
        panel_raises == ui_reached /\ panel_api /\ fault = "unregister_panel_factory"
        after_panel == IF ui_reached /\ panel_api /\ ~panel_raises
                       THEN after_service \ { PanelEntry } ELSE after_service
        marker_called == ui_reached /\ ~panel_raises /\ marker_provider # NoObject
        marker_raises == marker_called /\ marker_api /\ fault = "unregister_marker_provider"
        marker_done == marker_called /\ marker_api /\ ~marker_raises
        after_marker == IF marker_done THEN after_panel \ { MarkerEntry } ELSE after_panel
    IN  [ document_handler |-> IF service_done THEN NoObject ELSE document_handler,
          marker_provider |-> IF marker_done THEN NoObject ELSE marker_provider,
          registered |-> after_marker ]

OnActivate ==
    /\ pc = "plugin"
    /\ calls < MaxCalls
    /\ \E fault \in { NoFault } \cup ActivateFaults :
         LET result == on_activate(fault)
         IN  /\ document_handler' = result.document_handler
             /\ marker_provider' = result.marker_provider
             /\ registered' = result.registered
             /\ plugin_state' = IF result.raises THEN "activation-raised" ELSE "active"
    /\ calls' = calls + 1
    /\ UNCHANGED << pc, app_context_vars, filter_vars, color_vars, provider_vars, style_vars, input_vars,
                    raised, style_heading_map, progress, tree_vars, node_role, gen_vars >>

OnDeactivate ==
    /\ pc = "plugin"
    /\ calls < MaxCalls
    /\ \E fault \in { NoFault } \cup DeactivateFaults :
         LET result == on_deactivate(fault)
         IN  /\ document_handler' = result.document_handler
             /\ marker_provider' = result.marker_provider
             /\ registered' = result.registered
    /\ plugin_state' = "deactivated"
    /\ calls' = calls + 1
    /\ UNCHANGED << pc, app_context_vars, filter_vars, color_vars, provider_vars, style_vars, input_vars,
                    raised, style_heading_map, progress, tree_vars, node_role, gen_vars >>


\* ------------------------------------------------------------------------
\* Specifications
\* ------------------------------------------------------------------------
\* no provider method called
ProviderIdle ==
    /\ ditamap_root = NoRoot
    /\ has_restore = FALSE
    /\ saved_root = NoRoot
    /\ restore_raises = FALSE
    /\ analysis_raises = FALSE
    /\ original_root = NoRoot
    /\ provider_result = NoResult

\* the plugin as __init__ leaves it, in a host without registries
PluginIdle ==
    /\ plugin_state = "new"
    /\ document_handler = NoObject
    /\ marker_provider = NoObject
    /\ registered = {}
    /\ has_service_registry = FALSE
    /\ has_ui_registry = FALSE
    /\ panel_api = FALSE
    /\ marker_api = FALSE
    /\ calls = 0

\* the provider and the colour helper at rest
InitServices ==
    /\ exclusions = EmptyDict
    /\ style_levels = EmptyDict
    /\ style_excl_map = EmptyDict
    /\ color_value = <<>>
    /\ color_rules = [color_mappings |-> EmptyDict, theme_map |-> EmptyDict, tolerance |-> <<>>]
    /\ outputclass = NoClass
    /\ ProviderIdle
    /\ PluginIdle

InitConversion ==
    /\ style_heading_map = EmptyDict
    /\ progress = <<>>
    /\ node_level = <<>>
    /\ node_title = <<>>
    /\ node_children = <<>>
    /\ node_content = <<>>
    /\ node_role = <<>>
    /\ stack = <<>>
    /\ next_block = 1
    /\ heading_counters = <<>>
    /\ gen_pending = <<>>
    /\ topics = <<>>
    /\ topicrefs = <<>>
    /\ raised = NoError

InitRun == InitConversion /\ InitServices

\* no conversion under way
NoConversion ==
    /\ file_path = <<>>
    /\ doc_styles = <<>>
    /\ blocks = <<>>
    /\ load_error = NoError
    /\ STYLE_MAP = EmptyDict
    /\ user_overrides = NoOverrides
    /\ InitConversion

\* a conversion run, from the call to the return
Init ==
    /\ pc = "load"
    /\ file_path \in FilePaths
    /\ doc_styles = DocCatalog
    /\ blocks \in Docs
    /\ load_error \in { NoError } \cup LoadErrors
    /\ load_error # NoError => blocks = <<>>    \* nothing is read from such a file
    /\ STYLE_MAP \in StyleMapChoices
    /\ user_overrides = NoOverrides
    /\ InitRun

Next ==
    \/ NotifyLoading
    \/ LoadDocument
    \/ LoadDocumentFails
    \/ ExtractImages
    \/ ReraiseError
    \/ DetectStyles
    \/ MergeStyleMap
    \/ ApplyUserOverrides
    \/ StartStructure
    \/ BuildHeading
    \/ BuildContent
    \/ DetermineRoles
    \/ StartTopics
    \/ GenerateTopic
    \/ FallbackTopic
    \/ SkipFallback
    \/ Finish

Spec == Init /\ [][Next]_vars

\* the style classifier alone, over the style catalogs
InitClassify ==
    /\ pc = "detect-styles"
    /\ file_path = <<>>
    /\ doc_styles \in Catalogs
    /\ blocks = <<>>
    /\ load_error = NoError
    /\ STYLE_MAP = EmptyDict
    /\ user_overrides = NoOverrides
    /\ InitRun

NextClassify == DetectStyles

SpecClassify == InitClassify /\ [][NextClassify]_vars

\* the style classifier over catalogs with one style that cannot be inspected
InitClassifyFaulty ==
    /\ pc = "detect-styles"
    /\ file_path = <<>>
    /\ doc_styles \in FaultyCatalogs
    /\ blocks = <<>>
    /\ load_error = NoError
    /\ STYLE_MAP = EmptyDict
    /\ user_overrides = NoOverrides
    /\ InitRun

SpecClassifyFaulty == InitClassifyFaulty /\ [][NextClassify]_vars

\* style detection and the two merges, over STYLE_MAP and the caller's overrides
InitMerge ==
    /\ pc = "detect-styles"
    /\ file_path = <<>>
    /\ doc_styles \in { c \in SeqsUpTo(MergeCandidates, MaxStyles) : DistinctNames(c) }
    /\ blocks = <<>>
    /\ load_error = NoError
    /\ STYLE_MAP \in StyleMapChoices
    /\ user_overrides \in OverrideChoices
    /\ InitRun

NextMerge ==
    \/ DetectStyles
    \/ MergeStyleMap
    \/ ApplyUserOverrides

SpecMerge == InitMerge /\ [][NextMerge]_vars

\* build_exclusion_map over the flags of the panel and the detected levels
InitFilter ==
    /\ pc = "exclusion-map"
    /\ exclusions \in ExclusionChoices
    /\ style_levels \in StyleLevelChoices
    /\ style_excl_map = EmptyDict
    /\ color_value = <<>>
    /\ color_rules = [color_mappings |-> EmptyDict, theme_map |-> EmptyDict, tolerance |-> <<>>]
    /\ outputclass = NoClass
    /\ ProviderIdle
    /\ PluginIdle
    /\ NoConversion

NextFilter == BuildExclusionMap

SpecFilter == InitFilter /\ [][NextFilter]_vars

\* convert_color_to_outputclass over colour values and colour rules
InitColor ==
    /\ pc = "colour"
    /\ color_value \in ColorValues
    /\ color_rules \in ColorRules
    /\ outputclass = NoClass
    /\ ProviderIdle
    /\ PluginIdle
    /\ exclusions = EmptyDict
    /\ style_levels = EmptyDict
    /\ style_excl_map = EmptyDict
    /\ NoConversion

NextColor == ConvertColor

SpecColor == InitColor /\ [][NextColor]_vars

\* the three provider methods over contexts with and without a root, with and
\* without a saved original structure, and over failing services
InitProvider ==
    /\ pc = "provider"
    /\ ditamap_root \in { NoRoot, EditedRoot, SavedRoot }
    /\ has_restore \in BOOLEAN
    /\ saved_root \in { NoRoot, SavedRoot }
    /\ restore_raises \in BOOLEAN
    /\ analysis_raises \in BOOLEAN
    /\ original_root = NoRoot
    /\ provider_result = NoResult
    /\ exclusions = EmptyDict
    /\ style_levels = EmptyDict
    /\ style_excl_map = EmptyDict
    /\ color_value = <<>>
    /\ color_rules = [color_mappings |-> EmptyDict, theme_map |-> EmptyDict, tolerance |-> <<>>]
    /\ outputclass = NoClass
    /\ PluginIdle
    /\ NoConversion

NextProvider ==
    \/ GetCounts
    \/ GetOccurrences
    \/ GetLevels

SpecProvider == InitProvider /\ [][NextProvider]_vars

\* the plugin's lifecycle calls, in any order, over the shapes of app_context
InitPlugin ==
    /\ pc = "plugin"
    /\ plugin_state = "new"
    /\ document_handler = NoObject
    /\ marker_provider = NoObject
    /\ registered = {}
    /\ has_service_registry \in BOOLEAN
    /\ has_ui_registry \in BOOLEAN
    /\ panel_api \in BOOLEAN
    /\ marker_api \in BOOLEAN
    /\ calls = 0
    /\ exclusions = EmptyDict
    /\ style_levels = EmptyDict
    /\ style_excl_map = EmptyDict
    /\ color_value = <<>>
    /\ color_rules = [color_mappings |-> EmptyDict, theme_map |-> EmptyDict, tolerance |-> <<>>]
    /\ outputclass = NoClass
    /\ ProviderIdle
    /\ NoConversion

NextPlugin ==
    \/ OnActivate
    \/ OnDeactivate

SpecPlugin == InitPlugin /\ [][NextPlugin]_vars

\* ------------------------------------------------------------------------
\* Properties
\* ------------------------------------------------------------------------
Built == pc \in {"build-topics", "generate", "finish", "done"}
Classified == pc \notin {"load", "open", "extract-images", "detect-styles", "except", "raised"}
HeadingBlocks == { i \in DOMAIN blocks : is_heading(blocks[i], style_heading_map) }

\* the places where block item i occurs in the emitted topics: as the title of
\* a topic (position 0) or at a position of its rendered body
Occurrences(i) ==
    { << t, 0 >> : t \in { u \in DOMAIN topics : topics[u].title.block = i } }
    \cup UNION { { << t, k >> : k \in { j \in DOMAIN topics[t].body : topics[t].body[j] = i } } :
                   t \in DOMAIN topics }

\* C1: when the conversion has finished, every block item of the input occurs
\* exactly once in the emitted topics (a heading as the title of its topic, any
\* other item in the rendered body of one topic): nothing is lost or duplicated.
C1_RoundTrip ==
    pc = "done" => \A i \in DOMAIN blocks : Cardinality(Occurrences(i)) = 1

\* ---- C3 ----
\* name matches ^Heading\s+\d+$ (ignoring case) and its number is N
MatchesHeadingN(name, N) ==
    /\ Len(name) >= 9
    /\ Lower(SubSeq(name, 1, 7)) = HeadingWord
    /\ \E j \in 9..Len(name) : \E e \in { Len(name), Len(name) - 1 } :
          /\ e >= j
          /\ e = Len(name) \/ name[Len(name)] = "\n"
          /\ \A k \in 8..(j - 1) : IsSpace(name[k])
          /\ \A k \in j..e : IsDigit(name[k])
          /\ IntOf(SubSeq(name, j, e)) = N

\* C3: once the styles are classified, every paragraph style of the catalog whose
\* name matches ^Heading\s+\d+$ (case-insensitive) with a number N in 1..9 is
\* mapped to exactly N, whatever the other styles of the catalog are.
C3_BuiltinHeadingLevel ==
    Classified =>
        \A i \in DOMAIN doc_styles : \A N \in MinHeadingLevel..MaxHeadingLevel :
            (is_named_paragraph_style(doc_styles[i]) /\ MatchesHeadingN(doc_styles[i].name, N))
                => /\ doc_styles[i].name \in DOMAIN style_heading_map
                   /\ style_heading_map[doc_styles[i].name] = N

\* a catalog of two styles, one a heading name in a non-canonical spelling
C3_Witness ==
    /\ Classified
    /\ Len(doc_styles) = 2
    /\ \E i \in DOMAIN doc_styles : \E N \in MinHeadingLevel..MaxHeadingLevel :
          /\ is_named_paragraph_style(doc_styles[i])
          /\ MatchesHeadingN(doc_styles[i].name, N)
          /\ doc_styles[i].name # HeadingStyleName(N)
          /\ style_heading_map[doc_styles[i].name] = N

\* ---- C4 ----
\* the number of numeric segments of the longest prefix digits(sep digits)* of name
RECURSIVE PrefixSegments(_, _)
PrefixSegments(name, i) ==
    LET e == DigitRunEnd(name, i)
    IN  IF e = i THEN 0
        ELSE IF e <= Len(name) /\ IsSep(name[e]) /\ DigitRunEnd(name, e + 1) > e + 1
             THEN 1 + PrefixSegments(name, e + 1)
             ELSE 1

\* the position after that prefix
RECURSIVE PrefixEnd(_, _)
PrefixEnd(name, i) ==
    LET e == DigitRunEnd(name, i)
    IN  IF e <= Len(name) /\ IsSep(name[e]) /\ DigitRunEnd(name, e + 1) > e + 1
        THEN PrefixEnd(name, e + 1)
        ELSE e

PrefixAtWordBoundary(name) ==
    LET e == PrefixEnd(name, 1) IN e > Len(name) \/ ~IsWordChar(name[e])

\* C4 as stated: every paragraph style whose name begins with a numeric prefix of
\* k >= 1 segments separated by '.' or '-' is mapped to min(6, k).
C4_NumericPrefixLevel ==
    Classified =>
        \A i \in DOMAIN doc_styles :
            LET name == doc_styles[i].name
                k    == PrefixSegments(name, 1)
            IN  (is_named_paragraph_style(doc_styles[i]) /\ k >= 1)
                    => /\ name \in DOMAIN style_heading_map
                       /\ style_heading_map[name] = IntMin(6, k)

\* C4 amended: every paragraph style whose name begins with a numeric prefix of
\* k >= 1 segments separated by '.' or '-', the prefix ending at the end of the
\* name or before a character that is not a word character, is mapped to min(6, k).
C4_NumericPrefixLevelAtBoundary ==
    Classified =>
        \A i \in DOMAIN doc_styles :
            LET name == doc_styles[i].name
                k    == PrefixSegments(name, 1)
            IN  (is_named_paragraph_style(doc_styles[i]) /\ k >= 1 /\ PrefixAtWordBoundary(name))
                    => /\ name \in DOMAIN style_heading_map
                       /\ style_heading_map[name] = IntMin(6, k)

\* a style with more than six numeric segments is in the map, capped
C4_Witness ==
    /\ Classified
    /\ \E i \in DOMAIN doc_styles :
          /\ is_named_paragraph_style(doc_styles[i])
          /\ PrefixSegments(doc_styles[i].name, 1) > 6
          /\ PrefixAtWordBoundary(doc_styles[i].name)
          /\ style_heading_map[doc_styles[i].name] = 6

\* ---- C5 ----
EqualsBuiltinIgnoringCase(name) == Lower(name) \in builtin_non_heading_lower

\* C5: once the styles are classified, no style whose name equals a built-in
\* non-heading style name, ignoring case, has an entry in the map.
C5_BuiltinNonHeadingExcluded ==
    Classified =>
        \A i \in DOMAIN doc_styles :
            EqualsBuiltinIgnoringCase(doc_styles[i].name)
                => doc_styles[i].name \notin DOMAIN style_heading_map

\* a built-in name in another letter case, beside a style that is a heading
C5_Witness ==
    /\ Classified
    /\ style_heading_map # EmptyDict
    /\ \E i \in DOMAIN doc_styles :
          /\ is_named_paragraph_style(doc_styles[i])
          /\ EqualsBuiltinIgnoringCase(doc_styles[i].name)
          /\ doc_styles[i].name \notin builtin_non_heading_styles
          /\ doc_styles[i].name \notin DOMAIN style_heading_map

TreeStarted == node_level # <<>>
Nodes == DOMAIN node_level
Children(n) == Range(node_children[n])

\* the headings of the document are the blocks of ExampleDoc: levels 1,2,2,3,1
ExampleTree ==
    /\ node_level = << 0, 1, 2, 2, 3, 1 >>
    /\ node_children = << << 2, 6 >>, << 3, 4 >>, <<>>, << 5 >>, <<>>, <<>> >>

\* C2: at every point of the build and afterwards, every child has a level
\* strictly greater than its parent's, siblings are in document order, and two
\* consecutive headings of equal level are siblings, never parent and child; the
\* heading levels [1,2,2,3,1] give the tree of the specification's example.
C2_TreeShape ==
    TreeStarted =>
        /\ \A n \in Nodes : \A c \in Children(n) : node_level[c] > node_level[n]
        /\ \A n \in Nodes : \A a, b \in DOMAIN node_children[n] :
              a < b => node_title[node_children[n][a]] < node_title[node_children[n][b]]
        /\ \A m \in Nodes : \A n \in Nodes :
              (m # RootNode /\ n = m + 1 /\ node_level[m] = node_level[n])
                  => /\ n \notin Children(m)
                     /\ \E p \in Nodes : m \in Children(p) /\ n \in Children(p)
        /\ (blocks = ExampleDoc /\ Built) => ExampleTree

\* the example document, built
C2_Witness ==
    /\ blocks = ExampleDoc
    /\ pc = "done"
    /\ ExampleTree

HierLess(a, b) ==
    \/ Len(a) < Len(b) /\ SubSeq(b, 1, Len(a)) = a
    \/ \E k \in (DOMAIN a) \cap (DOMAIN b) :
          a[k] < b[k] /\ \A j \in 1..(k - 1) : a[j] = b[j]

FileStem == splitext_root(basename(file_path))

\* one topic and one topicref, the body rendered from all block items, and the
\* entry with data-level 1, tocIndex 1, foldout and tdm false, both titled title
SingleFallbackTopic(title) ==
    /\ Len(topics) = 1
    /\ Len(topicrefs) = 1
    /\ topics[1].title.kind = "filename"
    /\ topics[1].title.text = title
    /\ topics[1].body = [i \in DOMAIN blocks |-> i]
    /\ topicrefs[1].href = topics[1].id
    /\ topicrefs[1].parent = 0
    /\ topicrefs[1].navtitle.kind = "filename"
    /\ topicrefs[1].navtitle.text = title
    /\ topicrefs[1].data_level = 1
    /\ topicrefs[1].toc_index = << 1 >>
    /\ topicrefs[1].foldout = FALSE
    /\ topicrefs[1].tdm = FALSE

\* C9 as stated: for a document without a heading, the returned context has one
\* topic and one topicref, both titled with the source file name without its
\* extension, the body rendered from all block items, data-level 1, tocIndex 1,
\* foldout and tdm false.
C9_FallbackTitledByFileName ==
    (pc = "done" /\ HeadingBlocks = {}) => SingleFallbackTopic(FileStem)

\* C9 amended: ... both titled with the source file name without its extension,
\* or with "Document" when that name is empty ...
C9_FallbackTitledByFileNameOrDefault ==
    (pc = "done" /\ HeadingBlocks = {}) =>
        SingleFallbackTopic(IF FileStem # <<>> THEN FileStem
                            ELSE <<"D","o","c","u","m","e","n","t">>)

\* a returned fallback topic that holds several block items, for a path with a
\* directory part and an extension
C9_Witness ==
    /\ pc = "done"
    /\ HeadingBlocks = {}
    /\ Len(blocks) >= 2
    /\ FileStem # <<>>
    /\ FileStem # file_path
    /\ Len(topics) = 1
    /\ topics[1].title.text = FileStem
    /\ Len(topics[1].body) = Len(blocks)

\* ---- C10 ----
EntriesOf(n) == { e \in DOMAIN topicrefs : topicrefs[e].node = n }
TopicsOf(n) == { t \in DOMAIN topics : topics[t].node = n }

\* C10: for a document with at least one heading, the returned context has one
\* topic and one topicref per heading occurrence (Container nodes included, the
\* root excluded) and no other; each topicref references the topic of its own
\* node; a topicref is nested under another exactly when its node is a child of
\* the other's node, and lies directly under the map otherwise; the fallback adds
\* nothing.
C10_OneTopicPerHeading ==
    (pc = "done" /\ HeadingBlocks # {}) =>
        /\ Len(topics) = Cardinality(HeadingBlocks)
        /\ Len(topicrefs) = Cardinality(HeadingBlocks)
        /\ Cardinality(Nodes \ { RootNode }) = Cardinality(HeadingBlocks)
        /\ \A n \in Nodes \ { RootNode } :
              /\ Cardinality(TopicsOf(n)) = 1
              /\ Cardinality(EntriesOf(n)) = 1
              /\ node_title[n] \in HeadingBlocks
              /\ \A e \in EntriesOf(n) : \A t \in TopicsOf(n) : topicrefs[e].href = topics[t].id
        /\ \A h \in HeadingBlocks : \E n \in Nodes \ { RootNode } : node_title[n] = h
        /\ \A t, u \in DOMAIN topics : topics[t].id = topics[u].id => t = u
        /\ TopicsOf(0) = {} /\ EntriesOf(0) = {} /\ TopicsOf(RootNode) = {} /\ EntriesOf(RootNode) = {}
        /\ \A a, b \in DOMAIN topicrefs :
              topicrefs[b].parent = a <=> topicrefs[b].node \in Children(topicrefs[a].node)
        /\ \A b \in DOMAIN topicrefs :
              topicrefs[b].parent = 0 <=> topicrefs[b].node \in Children(RootNode)

\* a returned context with a Container node's topic and a nested topicref
C10_Witness ==
    /\ pc = "done"
    /\ Cardinality(HeadingBlocks) >= 3
    /\ \E e \in DOMAIN topicrefs :
          /\ topicrefs[e].parent # 0
          /\ node_role[topicrefs[topicrefs[e].parent].node] = "Container"
    /\ \E e \in DOMAIN topicrefs : e > 1 /\ topicrefs[e].parent = 0

\* ---- C11 ----
Milestones ==
    << "load", "extract-images", "detect-styles", "analyze-structure",
       "determine-roles", "build-topics", "finished" >>

IsPrefix(s, t) == Len(s) <= Len(t) /\ s = SubSeq(t, 1, Len(s))

Notified(m) == m \in Range(progress)

\* the topics of a finished run: one per heading, or the fallback topic alone
ExpectedTopics == IF HeadingBlocks = {} THEN 1 ELSE Cardinality(HeadingBlocks)

\* C11: on a successful run the callback receives the seven milestones load,
\* extract-images, detect-styles, analyze-structure, determine-roles,
\* build-topics, finished, each exactly once and in this order; a milestone is
\* notified before the work of the next stage starts (the file is opened only
\* after load, the style map computed only after extract-images, the tree
\* started only after detect-styles, the roles set only after
\* analyze-structure, the counters and topics touched only after
\* determine-roles); finished is notified when all topics, the fallback
\* included, are in the context, and no topic is added after it.
C11_ProgressMilestones ==
    /\ [](IsPrefix(progress, Milestones))
    /\ [](pc = "done" => progress = Milestones)
    /\ [](Notified("finished") => Len(topics) = ExpectedTopics)
    /\ [][ /\ (pc' = "extract-images" /\ pc # pc') => Notified("load")
           /\ style_heading_map' # style_heading_map => Notified("extract-images")
           /\ node_level' # node_level => Notified("detect-styles")
           /\ node_role' # node_role => Notified("analyze-structure")
           /\ (heading_counters' # heading_counters \/ topics' # topics)
                  => Notified("determine-roles")
           /\ Notified("finished") => topics' = topics ]_vars

\* a run that ended with all seven milestones and several topics
C11_Witness ==
    /\ pc = "done"
    /\ progress = Milestones
    /\ Len(topics) > 1

\* ---- C12 ----
\* C12: when opening the document fails, the function ends only by raising the
\* original error: no context is returned, no later stage runs (the style map
\* stays empty, no tree, no roles, no topic, no topicref, not even the
\* fallback) and neither a later milestone nor finished is notified.
C12_LoadFailurePropagates ==
    load_error # NoError =>
        /\ pc \in {"load", "open", "except", "raised"}
        /\ raised \in {NoError, load_error}
        /\ pc = "raised" => raised = load_error
        /\ IsPrefix(progress, << "load" >>)
        /\ style_heading_map = EmptyDict
        /\ node_level = <<>>
        /\ node_role = <<>>
        /\ heading_counters = <<>>
        /\ topics = <<>>
        /\ topicrefs = <<>>

\* a run whose document could not be opened and that raised this error
C12_Witness ==
    /\ pc = "raised"
    /\ load_error \in LoadErrors
    /\ raised = load_error
    /\ progress = << "load" >>

\* ---- C13 ----
\* C13: when the inspection of one style of the catalog raises, the returned
\* map still holds every other named paragraph style that the rules classify as
\* a heading, at the level the rules give it, wherever the faulty style stands.
C13_OnlyFaultyStyleSkipped ==
    Classified =>
        \A i \in DOMAIN doc_styles :
            LET style == doc_styles[i]
            IN  (/\ ~inspection_raises(style)
                 /\ is_named_paragraph_style(style)
                 /\ classify_style(style).heading)
                => /\ style.name \in DOMAIN style_heading_map
                   /\ style_heading_map[style.name] = classify_style(style).level

\* ---- C14 ----
\* the styles whose level in the map is the result of _infer_heading_level:
\* the named paragraph styles that rules 6 to 9 make headings
InferredStyles ==
    { i \in DOMAIN doc_styles :
        /\ is_named_paragraph_style(doc_styles[i])
        /\ classify_style(doc_styles[i]).heading
        /\ classify_style(doc_styles[i]).rule \in 6..9 }

HasDigit(name) == \E i \in DOMAIN name : IsDigit(name[i])

\* the first number of the name is in 1..9
NumberInRange(name) ==
    /\ first_number(name) # <<>>
    /\ IntOf(first_number(name)[1]) \in MinHeadingLevel..MaxHeadingLevel

\* the keyword tiers as the specification lists them
SpecLevel1Words == << <<"t","i","t","l","e">>, <<"m","a","i","n">>, <<"p","r","i","m","a","r","y">> >>

\* C14: the inferred level of a style name is its embedded number when that
\* number is in 1..9; for a name without a number it is 1 when the name contains
\* title, main or primary, 3 when it contains subsection or subchapter, 2 when
\* it contains section, chapter or part, and 2 when it contains none of these.
C14_InferredLevel ==
    Classified =>
        \A i \in InferredStyles :
            LET name  == doc_styles[i].name
                lower == Lower(name)
                level == style_heading_map[name]
                tier1 == ContainsAny(lower, SpecLevel1Words)
                tier2 == ContainsAny(lower, level2_words)
                tier3 == ContainsAny(lower, level3_words)
            IN  /\ NumberInRange(name) => level = IntOf(first_number(name)[1])
                /\ ~HasDigit(name) =>
                       /\ tier1 => level = 1
                       /\ (~tier1 /\ tier3) => level = 3
                       /\ (~tier1 /\ ~tier3 /\ tier2) => level = 2
                       /\ (~tier1 /\ ~tier3 /\ ~tier2) => level = 2

\* ---- C15 ----
MatchedByRule1(name) == builtin_heading_rule(name).heading
MatchedByRule2(name) == numeric_leading_match(name) # <<>>
MatchedByRule3(name) == is_builtin_non_heading(name)

HasExclusionWord(name) ==
    \/ ContainsAny(Strip(Lower(name)), strong_exclusions)
    \/ ContainsAny(Strip(Lower(name)), medium_exclusions)

\* the name or the metadata of the style would make it a heading by a later rule
HasHeadingSign(style) ==
    LET lower == Strip(Lower(style.name))
    IN  \/ ContainsAny(lower, international_patterns)
        \/ Contains(lower, HeadingWord) /\ Contains(lower, StyleWord)
        \/ ContainsAny(lower, org_patterns)
        \/ ContainsAny(lower, title_header_patterns)
        \/ outline_rule(style).heading

\* C15: the first matching rule decides.  A paragraph style that rules 1 to 3
\* do not match and whose lower-cased name contains a strong or medium
\* exclusion word has no entry in the map, whatever heading word or outline
\* level it also carries; a style that rule 1 or rule 2 matches has an entry
\* even when its name contains an exclusion word.
C15_FirstMatchWins ==
    Classified =>
        \A i \in DOMAIN doc_styles :
            LET style == doc_styles[i]
                name  == style.name
            IN  is_named_paragraph_style(style) =>
                  /\ (/\ ~MatchedByRule1(name)
                      /\ ~MatchedByRule2(name)
                      /\ ~MatchedByRule3(name)
                      /\ HasExclusionWord(name))
                     => name \notin DOMAIN style_heading_map
                  /\ (MatchedByRule1(name) \/ MatchedByRule2(name))
                     => name \in DOMAIN style_heading_map

\* a numeric-prefix style with an exclusion word that is a heading, beside a
\* style with an exclusion word and a heading sign that is not
C15_Witness ==
    /\ Classified
    /\ \E i, j \in DOMAIN doc_styles :
          /\ is_named_paragraph_style(doc_styles[i])
          /\ MatchedByRule2(doc_styles[i].name)
          /\ HasExclusionWord(doc_styles[i].name)
          /\ doc_styles[i].name \in DOMAIN style_heading_map
          /\ is_named_paragraph_style(doc_styles[j])
          /\ ~MatchedByRule1(doc_styles[j].name)
          /\ ~MatchedByRule2(doc_styles[j].name)
          /\ ~MatchedByRule3(doc_styles[j].name)
          /\ HasExclusionWord(doc_styles[j].name)
          /\ HasHeadingSign(doc_styles[j])
          /\ doc_styles[j].name \notin DOMAIN style_heading_map

\* ---- C16 ----
\* none of rules 1 to 9 matches the name
MatchesNoNameRule(name) ==
    LET lower == Strip(Lower(name))
    IN  /\ builtin_heading_match(name) = <<>>
        /\ ~MatchedByRule2(name)
        /\ ~MatchedByRule3(name)
        /\ ~HasExclusionWord(name)
        /\ ~ContainsAny(lower, international_patterns)
        /\ ~Contains(lower, HeadingWord)
        /\ ~ContainsAny(lower, org_patterns)
        /\ ~ContainsAny(lower, title_header_patterns)

\* the style carries an outline level that int() parses to a value in 0..8
HasOutlineLevel(style, v) ==
    /\ style.outline # <<>>
    /\ style.outline[1].parses
    /\ style.outline[1].val = v

\* C16: a paragraph style that none of rules 1 to 9 matches is mapped to v + 1
\* when it carries an explicit outline level v in 0..8, and has no entry when it
\* carries none, one outside 0..8 or one whose lookup raises; in every case the
\* other styles of the catalog are classified as the rules say.
C16_OutlineLevelRule ==
    Classified =>
        \A i \in DOMAIN doc_styles :
            LET style == doc_styles[i]
                name  == style.name
            IN  (is_named_paragraph_style(style) /\ MatchesNoNameRule(name)) =>
                  /\ \A v \in 0..MaxOutlineLevel :
                        HasOutlineLevel(style, v)
                            => /\ name \in DOMAIN style_heading_map
                               /\ style_heading_map[name] = v + 1
                  /\ (~\E v \in 0..MaxOutlineLevel : HasOutlineLevel(style, v))
                        => name \notin DOMAIN style_heading_map
                  /\ \A j \in DOMAIN doc_styles \ {i} :
                        (is_named_paragraph_style(doc_styles[j])
                            /\ classify_style(doc_styles[j]).heading)
                        => /\ doc_styles[j].name \in DOMAIN style_heading_map
                           /\ style_heading_map[doc_styles[j].name]
                                  = classify_style(doc_styles[j]).level

\* a style whose outline value cannot be parsed, absent from the map, followed by
\* a style mapped by its outline level
C16_Witness ==
    /\ Classified
    /\ Len(doc_styles) = 2
    /\ MatchesNoNameRule(doc_styles[1].name)
    /\ doc_styles[1].outline = << UnparsableOutline >>
    /\ doc_styles[1].name \notin DOMAIN style_heading_map
    /\ MatchesNoNameRule(doc_styles[2].name)
    /\ HasOutlineLevel(doc_styles[2], 0)
    /\ doc_styles[2].name \in DOMAIN style_heading_map
    /\ style_heading_map[doc_styles[2].name] = 1

\* ---- C17 ----
\* C17: every entry of the map handed to the structure builder, after the
\* merge with STYLE_MAP and with the caller's overrides, has a level in 1..9.
C17_FinalMapLevelsInRange ==
    pc = "analyze-structure" =>
        \A k \in DOMAIN style_heading_map :
            style_heading_map[k] \in MinHeadingLevel..MaxHeadingLevel

\* ---- C18 ----
\* C18: every level of the map the classifier returns is in 1..9, whichever
\* rule produced it.
C18_ClassifierLevelsInRange ==
    Classified =>
        \A k \in DOMAIN style_heading_map :
            style_heading_map[k] \in MinHeadingLevel..MaxHeadingLevel

\* a map with an entry of level 9 from the outline rule and an entry whose
\* level was inferred from a name with a number outside 1..9
C18_Witness ==
    /\ Classified
    /\ \E i, j \in DOMAIN doc_styles :
          /\ is_named_paragraph_style(doc_styles[i])
          /\ MatchesNoNameRule(doc_styles[i].name)
          /\ HasOutlineLevel(doc_styles[i], MaxOutlineLevel)
          /\ doc_styles[i].name \in DOMAIN style_heading_map
          /\ style_heading_map[doc_styles[i].name] = MaxHeadingLevel
          /\ j \in InferredStyles
          /\ HasDigit(doc_styles[j].name)
          /\ ~NumberInRange(doc_styles[j].name)
          /\ doc_styles[j].name \in DOMAIN style_heading_map

\* ---- C19 ----
\* C19: every style flagged excluded is recorded by build_exclusion_map at its
\* detected level L: it is in the set of key L and in the set of no other key.
C19_ExclusionAtDetectedLevel ==
    pc = "exclusion-map-built" =>
        \A style \in DOMAIN exclusions :
            exclusions[style] =>
                LET L == style_levels[style]
                IN  /\ L \in DOMAIN style_excl_map
                    /\ style \in style_excl_map[L]
                    /\ \A k \in DOMAIN style_excl_map \ {L} : style \notin style_excl_map[k]

\* ---- C20 ----
\* C20: a missing or empty colour value gives no class; for any other value,
\* every key of color_mappings that equals the value when letter case is
\* ignored decides the result, which is the class mapped to that key, before
\* the theme, background and tolerance paths are tried.
C20_ExactMatchIgnoringCase ==
    pc = "colour-converted" =>
        /\ (color_value = NoneValue \/ color_value = <<>>) => outputclass = NoClass
        /\ (color_value # NoneValue /\ color_value # <<>>) =>
              \A key \in DOMAIN color_rules.color_mappings :
                  Lower(key) = Lower(color_value)
                      => outputclass = color_rules.color_mappings[key]

\* ---- C21 ----
\* C21: when get_counts, get_occurrences or get_levels has returned, whatever
\* it returned (the analysis or the empty dict of a failure) and whatever the
\* root was before (None included), context.ditamap_root is the value it had
\* before the call.
C21_RootUnchanged ==
    pc = "provider-returned" => ditamap_root = original_root

\* ---- C22 ----
\* the builder reads a block item that is not a heading
ReadsContent ==
    /\ pc = "build"
    /\ next_block <= Len(blocks)
    /\ ~is_heading(blocks[next_block], style_heading_map)

\* C22: from the start of the build on, the stack of open nodes is not empty
\* and has the synthetic root of level 0 at its bottom, the levels of its nodes
\* increase strictly from bottom to top, and every node above the root is a
\* child of the node directly below it; a step that reads a non-heading item
\* appends it to the owned content of the top of the stack, changes the content
\* of no other node and leaves the stack as it is.
C22_StackDiscipline ==
    /\ [](TreeStarted =>
            /\ stack # <<>>
            /\ stack[1] = RootNode
            /\ node_level[RootNode] = RootLevel
            /\ \A k \in 1..(Len(stack) - 1) :
                  /\ node_level[stack[k]] < node_level[stack[k + 1]]
                  /\ stack[k + 1] \in Children(stack[k]))
    /\ [][ (ReadsContent /\ next_block' = next_block + 1) =>
              /\ stack' = stack
              /\ DOMAIN node_content' = DOMAIN node_content
              /\ node_content'[Top(stack)] = Append(node_content[Top(stack)], next_block)
              /\ \A n \in DOMAIN node_content \ { Top(stack) } :
                    node_content'[n] = node_content[n] ]_vars

\* during the build: two nodes open above the root, a node already closed, and
\* content owned by the top of the stack
C22_Witness ==
    /\ pc = "build"
    /\ Len(stack) = 3
    /\ Len(node_level) > 3
    /\ node_content[Top(stack)] # <<>>

\* ---- C23 ----
\* C23: whenever the plugin is not active (never activated, deactivated, or
\* left by an on_activate that raised) the registries hold nothing under the
\* plugin's id, and after on_deactivate the fields _document_handler and
\* _marker_provider are None.
C23_InactiveHoldsNothing ==
    /\ plugin_state # "active" => registered = {}
    /\ plugin_state = "deactivated" =>
          /\ document_handler = NoObject
          /\ marker_provider = NoObject

====
